---- MODULE Spec2Model ----
(***************************************************************************)
(* Model of the tool-calling conversation loop of the cloud audit agent,   *)
(* CloudAuditAgent.chat in src/agent_app.py, together with the capability  *)
(* table _EXEC_MAP and the data functions it binds.                        *)
(*                                                                         *)
(* Strings that the code inspects (the text of a response, the final text  *)
(* of the envelope) are sequences of one-character strings, so that join   *)
(* and strip are computed.  Strings the code only passes around (names,    *)
(* the query, exception messages) are TLA+ strings or sequences of         *)
(* fragments.                                                              *)
(***************************************************************************)
EXTENDS Integers, Sequences, FiniteSets, TLC

VARIABLES
    menu,      \* the calls the model may request during this request
    pc,        \* position of chat: idle, send_first, loop, send_result,
               \* send_error, fallback, returned, raised
    query,     \* the argument chat is called with
    session,   \* TRUE once model.start_chat has been called
    sent,      \* messages handed to chat.send_message, in order
    resp,      \* the local variable resp, while it can still be read
    fcs,       \* the local fcs of the round in progress
    fc,        \* the locals fc, name and args of the round in progress
    round,     \* completed iterations of "for _ in range(6)"
    calls,     \* the local list calls (the trace)
    invoked,   \* data-function invocations made by the executors, in order
    envelope,  \* the value chat returned, once pc = "returned"
    raisedAt,  \* where the exception that left chat was raised
    faults     \* the exceptions raised so far, in order: "exec" by a data
               \* function, "send" by send_message

vars == <<menu, pc, query, session, sent, resp, fcs, fc, round, calls, invoked, envelope,
          raisedAt, faults>>

-----------------------------------------------------------------------------
(* Bounds of the model.                                                    *)

\* content parts (text parts and function-call parts) of one model response
MaxParts == 2

-----------------------------------------------------------------------------
(* Program constants.                                                      *)

\* for _ in range(6)
MaxRounds == 6
\* kw.get("days", 30)
DefaultDays == 30
\* kw.get("minutes", 30)
DefaultMinutes == 30
\* kw.get("step_seconds", 60)
DefaultStepSeconds == 60

\* text.strip() or "No response."
NoResponse == <<"N","o"," ","r","e","s","p","o","n","s","e",".">>
\* text.strip() or "(no final text)"
NoFinalText == <<"(","n","o"," ","f","i","n","a","l"," ","t","e","x","t",")">>

-----------------------------------------------------------------------------
(* Text: "".join and str.strip.                                            *)

IsSpace(c) == c = " "

RECURSIVE LStrip(_)
LStrip(s) == IF s = <<>> THEN s
             ELSE IF IsSpace(Head(s)) THEN LStrip(Tail(s)) ELSE s

RECURSIVE RStrip(_)
RStrip(s) == IF s = <<>> THEN s
             ELSE IF IsSpace(s[Len(s)]) THEN RStrip(SubSeq(s, 1, Len(s) - 1))
             ELSE s

\* lstrip in place of strip
StripLeft(s) == LStrip(s)

\* text.strip()
Strip(s) == RStrip(LStrip(s))

RECURSIVE Join(_)
Join(parts) == IF parts = <<>> THEN <<>> ELSE Head(parts) \o Join(Tail(parts))

\* text.strip() or placeholder
StripOr(text, placeholder) ==
    IF Strip(text) = <<>> THEN placeholder ELSE Strip(text)

-----------------------------------------------------------------------------
(* Capability table: _EXEC_MAP and the tool functions it binds.            *)

Registered ==
    {"get_mtd_costs", "get_daily_cost_trend", "tiles_summary",
     "cpu_timeseries", "traffic_timeseries"}

\* kw.get(key, default); int() of an integer is the integer
KwGet(kw, key, default) == IF key \in DOMAIN kw THEN kw[key] ELSE default

\* _get_mtd_costs
GetMtdCosts(kw) ==
    [fn |-> "gcp_connector.get_mtd_costs_by_project_service", kwargs |-> <<>>]

\* _get_daily_cost_trend(int(kw.get("days", 30)))
GetDailyCostTrend(kw) ==
    [fn |-> "gcp_connector.get_daily_cost_trend",
     kwargs |-> [days |-> KwGet(kw, "days", DefaultDays)]]

\* _tiles_summary
TilesSummary(kw) == [fn |-> "gcp_live.tiles_summary", kwargs |-> <<>>]

\* _cpu_timeseries(minutes=..., step_seconds=...)
CpuTimeseries(kw) ==
    [fn |-> "gcp_live.cpu_timeseries",
     kwargs |-> [minutes |-> KwGet(kw, "minutes", DefaultMinutes),
                 step_seconds |-> KwGet(kw, "step_seconds", DefaultStepSeconds)]]

\* _traffic_timeseries(minutes=..., step_seconds=...)
TrafficTimeseries(kw) ==
    [fn |-> "gcp_live.traffic_timeseries",
     kwargs |-> [minutes |-> KwGet(kw, "minutes", DefaultMinutes),
                 step_seconds |-> KwGet(kw, "step_seconds", DefaultStepSeconds)]]

\* _EXEC_MAP[name](**kw): the data-function invocation the executor makes
ExecMap(name, kw) ==
    CASE name = "get_mtd_costs"        -> GetMtdCosts(kw)
      [] name = "get_daily_cost_trend" -> GetDailyCostTrend(kw)
      [] name = "tiles_summary"        -> TilesSummary(kw)
      [] name = "cpu_timeseries"       -> CpuTimeseries(kw)
      [] name = "traffic_timeseries"   -> TrafficTimeseries(kw)

\* raise ValueError(f"Unknown tool: {name}"); str(e)
UnknownToolError(name) == <<"Unknown tool: ", name>>

-----------------------------------------------------------------------------
(* What the environment can do: queries, model responses, exceptions.      *)

SeqsUpTo(S, n) == UNION {[1..k -> S] : k \in 0..n}

MainQuery == "What is my GCP spend this month?"

Queries == {"", MainQuery}

\* the calls the model may request in one request: a registered name with an
\* integer argument outside its declared bounds or absent, and an
\* unregistered name
UnknownCall == [name |-> "unknown_tool", args |-> <<>>]

MainMenu == {[name |-> "get_daily_cost_trend", args |-> [days |-> 400]], UnknownCall}

Menus ==
    {MainMenu,
     {[name |-> "get_mtd_costs", args |-> <<>>], UnknownCall},
     {[name |-> "tiles_summary", args |-> <<>>], UnknownCall},
     {[name |-> "cpu_timeseries", args |-> [minutes |-> 0, step_seconds |-> 601]],
      UnknownCall},
     {[name |-> "traffic_timeseries", args |-> [minutes |-> 241]], UnknownCall}}

\* texts a text part may carry
PartTexts == {<<" ">>, <<"a">>}

\* a content part is a text part or a function-call part
Parts(m) ==
    {[text |-> t] : t \in PartTexts} \cup {[function_call |-> c] : c \in m}

\* a response without candidates; also the value of resp while it is unset
NoCandidates == [candidates |-> FALSE, parts |-> <<>>]

\* responses send_message may return
ResponsesOf ==
    [m \in Menus |->
        {NoCandidates} \cup
        {[candidates |-> TRUE, parts |-> p] : p \in SeqsUpTo(Parts(m), MaxParts)}]

Responses == ResponsesOf[menu]

\* str(e) of an exception raised by a data function
ExecErrors == {<<"connection error">>}

\* str(e) of an exception raised by send_message
SendErrors == {<<"service unavailable">>}

-----------------------------------------------------------------------------
(* Messages and trace entries.                                             *)

\* chat.send_message(query, tools=tools)
UserMessage(q) == [content |-> q, tools |-> TRUE]

\* the value a data function returns for an invocation
ResultOf(inv) == [data_of |-> inv]

\* the same send with tools=tools passed again
ResultMessageWithTools(name, result) ==
    [content |-> [function_response |-> [name |-> name, response |-> result]],
     tools |-> TRUE]

\* chat.send_message({"function_response": {"name": name, "response": result}})
ResultMessage(name, result) ==
    [content |-> [function_response |-> [name |-> name, response |-> result]],
     tools |-> FALSE]

\* chat.send_message({"function_response": {"name": name, "response": {"error": str(e)}}})
ErrorMessage(name, err) ==
    [content |-> [function_response |-> [name |-> name,
                                         response |-> [error |-> err]]],
     tools |-> FALSE]

\* {"name": name, "args": args, "ok": True}
OkEntry(call) == [name |-> call.name, args |-> call.args, ok |-> TRUE]

\* {"name": name, "args": args, "ok": False, "error": str(e)}
FailEntry(call, err) ==
    [name |-> call.name, args |-> call.args, ok |-> FALSE, error |-> err]

IsFunctionCall(p) == "function_call" \in DOMAIN p

\* getattr(resp.candidates[0], "function_calls", None): the calls named by the
\* function-call parts of the response, in order
RECURSIVE FunctionCalls(_)
FunctionCalls(parts) ==
    IF parts = <<>> THEN <<>>
    ELSE IF IsFunctionCall(Head(parts))
         THEN <<Head(parts).function_call>> \o FunctionCalls(Tail(parts))
         ELSE FunctionCalls(Tail(parts))

\* getattr(p, "text", "")
PartText(p) == IF "text" \in DOMAIN p THEN p.text ELSE <<>>

\* "".join([getattr(p, "text", "") for p in parts])
ResponseText(r) == Join([i \in 1..Len(r.parts) |-> PartText(r.parts[i])])

\* fc = fcs[0]
SelectFirstCall(requested) == requested[1]

\* fc = fcs[-1]
SelectCall(requested) == requested[Len(requested)]

\* the value of fc while no round is in progress
NoCall == [name |-> "", args |-> <<>>]

\* a loop that runs one iteration more
InLoopOneMore == round <= MaxRounds

\* range(6): the loop body runs while fewer than 6 iterations are complete
InLoop == round < MaxRounds

\* the loop head found candidates and at least one requested call
ToolRequested ==
    /\ pc = "loop"
    /\ InLoop
    /\ resp.candidates
    /\ FunctionCalls(resp.parts) # <<>>

-----------------------------------------------------------------------------
(* The state machine.  The code does not read resp between the selection   *)
(* of fc and the next assignment to resp, and does not read fcs, fc, name  *)
(* and args between that assignment and the next selection.  Over those    *)
(* stretches the model holds NoCandidates in resp, and <<>> and NoCall in  *)
(* fcs and fc, so that states differing only in a value that is never read *)
(* again coincide.                                                         *)

InitChat ==
    /\ pc = "idle"
    /\ session = FALSE
    /\ sent = <<>>
    /\ resp = NoCandidates
    /\ fcs = <<>>
    /\ fc = NoCall
    /\ round = 0
    /\ calls = <<>>
    /\ invoked = <<>>
    /\ envelope = [text |-> <<>>, calls |-> <<>>]
    /\ raisedAt = "none"
    /\ faults = <<>>

\* chat(query): calls = []; chat = self.model.start_chat(history=[])
Chat ==
    /\ pc = "idle"
    /\ session' = TRUE
    /\ calls' = <<>>
    /\ pc' = "send_first"
    /\ UNCHANGED <<menu, query, sent, resp, fcs, fc, round, invoked, envelope, raisedAt, faults>>

\* resp = chat.send_message(query, tools=tools) returns r
SendFirst(r) ==
    /\ pc = "send_first"
    /\ sent' = Append(sent, UserMessage(query))
    /\ resp' = r
    /\ pc' = "loop"
    /\ UNCHANGED <<menu, query, session, fcs, fc, round, calls, invoked, envelope,
                   raisedAt, faults>>

\* the first send_message raises: nothing catches it
SendFirstRaises ==
    /\ pc = "send_first"
    /\ sent' = Append(sent, UserMessage(query))
    /\ faults' = Append(faults, "send")
    /\ pc' = "raised"
    /\ raisedAt' = "send_first"
    /\ UNCHANGED <<menu, query, session, resp, fcs, fc, round, calls, invoked, envelope>>

\* if not getattr(resp, "candidates", None): break
NoCandidatesBreak ==
    /\ pc = "loop"
    /\ InLoop
    /\ ~resp.candidates
    /\ pc' = "fallback"
    /\ UNCHANGED <<menu, query, session, sent, resp, fcs, fc, round, calls, invoked,
                   envelope, raisedAt, faults>>

\* if not fcs: return {"text": text.strip() or "No response.", "calls": calls}
FinalText ==
    /\ pc = "loop"
    /\ InLoop
    /\ resp.candidates
    /\ FunctionCalls(resp.parts) = <<>>
    /\ envelope' = [text |-> StripOr(ResponseText(resp), NoResponse),
                    calls |-> calls]
    /\ pc' = "returned"
    /\ UNCHANGED <<menu, query, session, sent, resp, fcs, fc, round, calls, invoked,
                   raisedAt, faults>>

\* the try block without its except clause: the exception leaves chat
HandlePropagates(call, err) ==
    /\ calls' = calls
    /\ pc' = "raised"

\* except Exception as e: calls.append({... "ok": False, "error": str(e)})
Handle(call, err) ==
    /\ calls' = Append(calls, FailEntry(call, err))
    /\ pc' = "send_error"

\* fn = _EXEC_MAP.get(name); if not fn: raise ValueError(...)
UnknownTool ==
    /\ ToolRequested
    /\ fcs' = FunctionCalls(resp.parts)
    /\ fc' = SelectCall(fcs')
    /\ fc'.name \notin Registered
    /\ Handle(fc', UnknownToolError(fc'.name))
    /\ resp' = NoCandidates
    /\ UNCHANGED <<menu, query, session, sent, round, invoked, envelope, raisedAt,
                   faults>>

\* result = fn(**args) returns; calls.append({... "ok": True})
ExecuteOk ==
    /\ ToolRequested
    /\ fcs' = FunctionCalls(resp.parts)
    /\ fc' = SelectCall(fcs')
    /\ fc'.name \in Registered
    /\ invoked' = Append(invoked, ExecMap(fc'.name, fc'.args))
    /\ calls' = Append(calls, OkEntry(fc'))
    /\ pc' = "send_result"
    /\ resp' = NoCandidates
    /\ UNCHANGED <<menu, query, session, sent, round, envelope, raisedAt, faults>>

\* result = fn(**args): the data function raises an exception whose str is err
ExecuteRaises(err) ==
    /\ ToolRequested
    /\ fcs' = FunctionCalls(resp.parts)
    /\ fc' = SelectCall(fcs')
    /\ fc'.name \in Registered
    /\ invoked' = Append(invoked, ExecMap(fc'.name, fc'.args))
    /\ faults' = Append(faults, "exec")
    /\ Handle(fc', err)
    /\ resp' = NoCandidates
    /\ UNCHANGED <<menu, query, session, sent, round, envelope, raisedAt>>

\* resp = chat.send_message({"function_response": {... "response": result}})
SendResult(r) ==
    /\ pc = "send_result"
    /\ sent' = Append(sent, ResultMessage(fc.name, ResultOf(invoked[Len(invoked)])))
    /\ resp' = r
    /\ round' = round + 1
    /\ pc' = "loop"
    /\ fcs' = <<>>
    /\ fc' = NoCall
    /\ UNCHANGED <<menu, query, session, calls, invoked, envelope, raisedAt, faults>>

\* that send_message raises inside the try block: the except clause runs
SendResultRaises(err) ==
    /\ pc = "send_result"
    /\ sent' = Append(sent, ResultMessage(fc.name, ResultOf(invoked[Len(invoked)])))
    /\ faults' = Append(faults, "send")
    /\ Handle(fc, err)
    /\ UNCHANGED <<menu, query, session, resp, fcs, fc, round, invoked, envelope, raisedAt>>

\* resp = chat.send_message({"function_response": {... {"error": str(e)}}})
SendError(r) ==
    /\ pc = "send_error"
    /\ sent' = Append(sent, ErrorMessage(fc.name, calls[Len(calls)].error))
    /\ resp' = r
    /\ round' = round + 1
    /\ pc' = "loop"
    /\ fcs' = <<>>
    /\ fc' = NoCall
    /\ UNCHANGED <<menu, query, session, calls, invoked, envelope, raisedAt, faults>>

\* the send_message of the except clause raises: nothing catches it
SendErrorRaises ==
    /\ pc = "send_error"
    /\ sent' = Append(sent, ErrorMessage(fc.name, calls[Len(calls)].error))
    /\ faults' = Append(faults, "send")
    /\ pc' = "raised"
    /\ raisedAt' = "send_error"
    /\ UNCHANGED <<menu, query, session, resp, fcs, fc, round, calls, invoked, envelope>>

\* the for loop has ended: by break, or because range(6) is exhausted
AtFallback == pc = "fallback" \/ (pc = "loop" /\ ~InLoop)

\* fallback: return {"text": text.strip() or "(no final text)", "calls": calls}
FallbackReturn ==
    /\ AtFallback
    /\ resp.candidates
    /\ envelope' = [text |-> StripOr(ResponseText(resp), NoFinalText),
                    calls |-> calls]
    /\ pc' = "returned"
    /\ UNCHANGED <<menu, query, session, sent, resp, fcs, fc, round, calls, invoked,
                   raisedAt, faults>>

\* fallback: resp.candidates[0] raises when resp has no candidates
FallbackRaises ==
    /\ AtFallback
    /\ ~resp.candidates
    /\ pc' = "raised"
    /\ raisedAt' = "fallback"
    /\ UNCHANGED <<menu, query, session, sent, resp, fcs, fc, round, calls, invoked,
                   envelope, faults>>

Next ==
    \/ Chat
    \/ \E r \in Responses : SendFirst(r)
    \/ SendFirstRaises
    \/ NoCandidatesBreak
    \/ FinalText
    \/ UnknownTool
    \/ ExecuteOk
    \/ \E e \in ExecErrors : ExecuteRaises(e)
    \/ \E r \in Responses : SendResult(r)
    \/ \E e \in SendErrors : SendResultRaises(e)
    \/ \E r \in Responses : SendError(r)
    \/ SendErrorRaises
    \/ FallbackReturn
    \/ FallbackRaises

\* chat is called with the main query and the model requests calls of the
\* main menu
Init == menu = MainMenu /\ query = MainQuery /\ InitChat

Spec == Init /\ [][Next]_vars

\* chat is called with any query and the model requests calls of any one menu
InitAll == menu \in Menus /\ query \in Queries /\ InitChat

SpecAll == InitAll /\ [][Next]_vars

-----------------------------------------------------------------------------
(* Definitions shared by the properties.                                   *)

\* the bounds the schema declares: "minimum" and "maximum" of days, minutes
\* and step_seconds
MinDays == 1
MaxDays == 365
MinMinutes == 1
MaxMinutes == 240
MinStepSeconds == 5
MaxStepSeconds == 600

Clamp(v, lo, hi) == IF v < lo THEN lo ELSE IF v > hi THEN hi ELSE v

Last(seq) == seq[Len(seq)]

\* chat has returned or raised
Terminated == pc \in {"returned", "raised"}

\* t is s without its leading and trailing spaces
IsTrimOf(t, s) ==
    \E i \in 0..Len(s) : \E j \in i..Len(s) :
        /\ t = SubSeq(s, i + 1, j)
        /\ \A k \in 1..i : s[k] = " "
        /\ \A k \in (j + 1)..Len(s) : s[k] = " "
        /\ t # <<>> => (t[1] # " " /\ t[Len(t)] # " ")

IsBlank(s) == \A k \in 1..Len(s) : s[k] = " "

\* tool calls the loop has attempted so far
Attempts ==
    round + (IF \/ pc \in {"send_result", "send_error"}
                \/ (pc = "raised" /\ raisedAt = "send_error")
             THEN 1 ELSE 0)

-----------------------------------------------------------------------------
(* C1.  Whenever chat returns an envelope, its calls sequence has at most  *)
(* 6 entries and its text is a (non-empty) string, whatever the model and  *)
(* the tools do, failed executors and failed sends included.               *)
(* Fails: a send of a tool result that raises inside the try block adds a  *)
(* second entry for the same call, so a request can return with up to 12.  *)
C1_EnvelopeBounded ==
    pc = "returned" =>
        /\ Len(envelope.calls) <= MaxRounds
        /\ envelope.text # <<>>

(* C2.  If send_message raises at any point of a request, chat does not    *)
(* propagate the exception.                                                *)
(* Fails: the first send and the send of the except clause are outside     *)
(* every try block.                                                        *)
C2_SendFailureContained ==
    pc = "raised" => raisedAt \notin {"send_first", "send_error"}

(* C3.  The value passed to the data function for a bounded integer        *)
(* parameter is the requested value clamped to the declared bounds; days   *)
(* = 400 invokes get_daily_cost_trend with days = 365.                     *)
(* Fails: _EXEC_MAP passes int(kw.get(...)) on unchanged.                  *)
C3_ArgumentsClamped ==
    (pc = "send_result" \/ (pc = "send_error" /\ fc.name \in Registered)) =>
        LET kw == Last(invoked).kwargs IN
        /\ "days" \in DOMAIN kw =>
               kw.days = Clamp(KwGet(fc.args, "days", DefaultDays), MinDays, MaxDays)
        /\ "minutes" \in DOMAIN kw =>
               kw.minutes = Clamp(KwGet(fc.args, "minutes", DefaultMinutes),
                                  MinMinutes, MaxMinutes)
        /\ "step_seconds" \in DOMAIN kw =>
               kw.step_seconds = Clamp(KwGet(fc.args, "step_seconds", DefaultStepSeconds),
                                       MinStepSeconds, MaxStepSeconds)

(* C4.  An empty query is rejected before the loop starts: no session is   *)
(* opened, no message is sent, no tool is executed, no envelope is         *)
(* produced.                                                               *)
(* Fails: chat never inspects query.                                       *)
C4_EmptyQueryRejected ==
    (pc # "idle" /\ query = "") =>
        /\ ~session
        /\ sent = <<>>
        /\ invoked = <<>>
        /\ pc # "returned"

\* what C5 requires of one step of chat
C5_FailedStep ==
    LET requested == FunctionCalls(resp.parts)
        last == requested[Len(requested)]
        answer == ResponseText(resp)
        failedLast == calls # <<>> /\ ~Last(calls).ok
    IN
    /\ (ToolRequested /\ (last.name \notin Registered \/ faults' = Append(faults, "exec")))
        => /\ pc' = "send_error"
           /\ Len(calls') = Len(calls) + 1
           /\ SubSeq(calls', 1, Len(calls)) = calls
           /\ Last(calls').name = last.name
           /\ Last(calls').args = last.args
           /\ Last(calls').ok = FALSE
           /\ "error" \in DOMAIN Last(calls')
           /\ last.name \notin Registered => Last(calls').error # <<>>
    /\ pc = "send_error"
        => /\ Len(sent') = Len(sent) + 1
           /\ Last(sent').content.function_response =
                  [name |-> Last(calls).name,
                   response |-> [error |-> Last(calls).error]]
           /\ faults' = faults =>
                  /\ pc' = "loop"
                  /\ resp' \in Responses
                  /\ round' = round + 1
                  /\ calls' = calls
    /\ (pc = "loop" /\ failedLast /\ resp.candidates /\ requested = <<>>)
        => /\ pc' = "returned"
           /\ envelope'.calls = calls
           /\ IF IsBlank(answer)
              THEN envelope'.text \in {NoResponse, NoFinalText}
              ELSE IsTrimOf(envelope'.text, answer)

(* C5.  When the tool-execution step of a round fails, because the         *)
(* requested name is not registered or because the bound executor raises,  *)
(* chat does not raise: it appends one trace entry for that call with      *)
(* ok = false and an error string (non-empty for an unknown name), sends   *)
(* {error: message} to the model as the result of that call, and, once the *)
(* model has answered, inspects that answer; if it is text, the request    *)
(* ends with that text, trimmed, and the trace.                            *)
C5_ToolFailureHandled == [][C5_FailedStep]_vars

\* an unknown name and a raising executor have both been recorded, and the
\* request has ended with the text the model answered after the last failure
C5_Witness ==
    /\ pc = "returned"
    /\ Len(calls) = 2
    /\ calls[1] = [name |-> "get_daily_cost_trend", args |-> [days |-> 400],
                   ok |-> FALSE, error |-> <<"connection error">>]
    /\ calls[2] = [name |-> "unknown_tool", args |-> <<>>, ok |-> FALSE,
                   error |-> <<"Unknown tool: ", "unknown_tool">>]
    /\ Len(sent) = 3
    /\ faults = <<"exec">>
    /\ resp.parts = <<[text |-> <<"a">>], [text |-> <<" ">>]>>
    /\ envelope = [text |-> <<"a">>, calls |-> calls]

\* what C6 requires of one step of chat
C6_FirstStep ==
    (pc = "loop" /\ round = 0 /\ resp.candidates /\ FunctionCalls(resp.parts) = <<>>)
        => /\ pc' = "returned"
           /\ sent' = <<UserMessage(query)>>
           /\ invoked' = <<>>
           /\ envelope'.calls = <<>>
           /\ IF IsBlank(ResponseText(resp))
              THEN envelope'.text = NoResponse
              ELSE IsTrimOf(envelope'.text, ResponseText(resp))

(* C6.  If the first response of the model requests no tool, chat returns  *)
(* after exactly one message to the model, with no executor invoked, an    *)
(* empty calls sequence, and text equal to the concatenated text parts of  *)
(* that response, trimmed, or "No response." when the trimmed text is      *)
(* empty.                                                                  *)
C6_NoToolFirstResponse == [][C6_FirstStep]_vars

\* the first response was the text "a" followed by a space, and chat returned
\* "a" after one message
C6_Witness ==
    /\ pc = "returned"
    /\ round = 0
    /\ sent = <<UserMessage(query)>>
    /\ invoked = <<>>
    /\ resp.parts = <<[text |-> <<"a">>], [text |-> <<" ">>]>>
    /\ envelope = [text |-> <<"a">>, calls |-> <<>>]

\* a measure of the statements chat has left to execute, and what C7 requires
\* of one step of chat
Measure ==
    CASE pc = "idle"        -> 3 * MaxRounds + 6
      [] pc = "send_first"  -> 3 * MaxRounds + 5
      [] pc = "loop"        -> 3 * (MaxRounds - round) + 4
      [] pc = "send_result" -> 3 * (MaxRounds - round) + 3
      [] pc = "send_error"  -> 3 * (MaxRounds - round) + 2
      [] pc = "fallback"    -> 1
      [] OTHER              -> 0

C7_RoundStep ==
    LET toolAgain == pc = "loop" /\ resp.candidates /\ FunctionCalls(resp.parts) # <<>> IN
    /\ Measure' < Measure
    /\ Measure' >= 0
    /\ Len(invoked') <= MaxRounds
    /\ Attempts' <= MaxRounds
    /\ round = MaxRounds => (invoked' = invoked /\ calls' = calls /\ sent' = sent)
    /\ (toolAgain /\ round < MaxRounds) => pc' \in {"send_result", "send_error"}
    /\ (pc \in {"send_result", "send_error"} /\ faults' = faults)
        => pc' = "loop" /\ round' = round + 1
    /\ (toolAgain /\ round >= MaxRounds)
        => /\ pc' = "returned"
           /\ round = MaxRounds
           /\ envelope'.calls = calls
           /\ envelope'.text # <<>>
           /\ IF IsBlank(ResponseText(resp))
              THEN envelope'.text = NoFinalText
              ELSE IsTrimOf(envelope'.text, ResponseText(resp))
           /\ faults = <<>> => Len(calls) = MaxRounds

(* C7.  Against a model that requests a tool call in every response, chat  *)
(* terminates: every step of chat lowers a natural-number measure, every   *)
(* response is followed by the execution of a tool until 6 tool calls have *)
(* been executed, at most 6 are executed, the call requested in the        *)
(* response that follows the 6th tool result is                            *)
(* not executed, and chat returns an envelope whose text is non-empty (the *)
(* trimmed text of the last response, or "(no final text)") together with  *)
(* the full trace.                                                         *)
C7_BudgetTerminates == [][C7_RoundStep]_vars

\* seven responses each requested a tool, six calls ran, and chat returned the
\* placeholder with the six entries
C7_Witness ==
    /\ pc = "returned"
    /\ round = MaxRounds
    /\ faults = <<>>
    /\ Len(invoked) = MaxRounds
    /\ Len(sent) = MaxRounds + 1
    /\ resp.parts = <<[function_call |-> UnknownCall]>>
    /\ envelope.text = NoFinalText
    /\ Len(envelope.calls) = MaxRounds

(* C8.  At every point of a request the trace calls holds exactly one      *)
(* entry for each tool call the loop has attempted so far; no requested    *)
(* call ever contributes two entries.                                      *)
(* Fails: when the send of a successful result raises, the except clause   *)
(* appends a second entry, with ok = false, for the call already recorded  *)
(* with ok = true.                                                         *)
C8_OneEntryPerAttempt == Len(calls) = Attempts

(* C9.  If a response of the model carries no candidates, the loop exits   *)
(* early and chat returns an envelope with a placeholder or best-effort    *)
(* text and the trace so far, rather than raising.                         *)
(* Fails: after the break the fallback evaluates resp.candidates[0] on the *)
(* same response, which raises.                                            *)
C9_NoCandidatesReturns == ~(pc = "raised" /\ raisedAt = "fallback")

\* what C10 requires of one step of chat; runsOne: an executor runs whatever
\* the name of the last call
C10_SelectionStep(runsOne) ==
    LET requested == FunctionCalls(resp.parts)
        last == requested[Len(requested)]
    IN
    /\ (ToolRequested /\ Len(requested) >= 2)
        => /\ fcs' = requested
           /\ IF runsOne \/ last.name \in Registered
              THEN /\ Len(invoked') = Len(invoked) + 1
                   /\ SubSeq(invoked', 1, Len(invoked)) = invoked
                   /\ last.name \in Registered
                   /\ Last(invoked') = ExecMap(last.name, last.args)
                   /\ \A k \in DOMAIN last.args \cap DOMAIN Last(invoked').kwargs :
                          Last(invoked').kwargs[k] = last.args[k]
              ELSE invoked' = invoked
           /\ Len(calls') = Len(calls) + 1
           /\ SubSeq(calls', 1, Len(calls)) = calls
           /\ Last(calls').name = last.name
           /\ Last(calls').args = last.args
           /\ sent' = sent
    /\ (pc \in {"send_result", "send_error"} /\ Len(fcs) >= 2)
        => /\ invoked' = invoked
           /\ sent' = Append(sent, Last(sent'))
           /\ Last(sent').content.function_response.name = Last(fcs).name
           /\ \/ calls' = calls
              \/ /\ calls' = Append(calls, Last(calls'))
                 /\ Last(calls').name = Last(fcs).name
                 /\ Last(calls').args = Last(fcs).args

(* C10, as claimed.  When one response names several tool calls, the loop  *)
(* executes exactly one executor in that round, the one for the last call  *)
(* named, with that call's arguments; the other calls are never executed,  *)
(* never appear in the trace, and no result is sent back for them.         *)
(* Fails when the last call named is not registered: no executor runs.     *)
C10_ExactlyOneExecutor == [][C10_SelectionStep(TRUE)]_vars

(* C10, amended.  When one response names several tool calls, the loop     *)
(* attempts only the last call named, with that call's arguments: it runs  *)
(* the executor of that call when its name is registered and no executor   *)
(* when it is not; the other calls are never executed, never appear in the *)
(* trace, and no result is sent back for them.                             *)
C10_OnlyLastCallAttempted == [][C10_SelectionStep(FALSE)]_vars

\* the response named unknown_tool and then get_daily_cost_trend(days=400):
\* only the latter was executed and recorded
C10_Witness ==
    /\ pc = "send_result"
    /\ fcs = <<UnknownCall, [name |-> "get_daily_cost_trend", args |-> [days |-> 400]]>>
    /\ invoked = <<[fn |-> "gcp_connector.get_daily_cost_trend", kwargs |-> [days |-> 400]]>>
    /\ calls = <<[name |-> "get_daily_cost_trend", args |-> [days |-> 400], ok |-> TRUE]>>
    /\ Len(sent) = 1

\* no send_message has raised so far
NoSendRaised == \A i \in 1..Len(faults) : faults[i] # "send"

\* what C11 requires of one step of chat
C11_ProtocolStep ==
    LET requested == FunctionCalls(resp.parts)
        last == requested[Len(requested)]
    IN
    NoSendRaised' =>
        \* the first message is the query, with the capability schema
        /\ sent' # <<>> => sent'[1] = [content |-> query, tools |-> TRUE]
        \* every later message is a tool result without the schema, named
        \* after the call the loop took from the preceding response
        /\ \A i \in 2..Len(sent') :
               /\ ~sent'[i].tools
               /\ DOMAIN sent'[i].content = {"function_response"}
               /\ sent'[i].content.function_response.name = calls'[i - 1].name
        /\ ToolRequested =>
               /\ pc' \in {"send_result", "send_error"}
               /\ Last(calls').name = last.name
               /\ fc'.name = last.name
        /\ pc \in {"send_result", "send_error"} =>
               /\ Len(sent') = Len(sent) + 1
               /\ Last(sent').content.function_response.name = fc.name
               /\ pc' = "loop"
        /\ sent' # sent => pc \in {"send_first", "send_result", "send_error"}
        \* a tool is executed only in answer to a request of the model
        /\ invoked' # invoked =>
               /\ ToolRequested
               /\ last.name \in Registered
               /\ invoked' = Append(invoked, ExecMap(last.name, last.args))
        \* one trace entry per tool result sent
        /\ pc' \in {"send_result", "send_error"} => Len(sent') = Len(calls')
        /\ pc' \in {"loop", "fallback", "returned", "raised"} =>
               Len(sent') = 1 + Len(calls')
        /\ pc' = "returned" => Len(sent') = 1 + Len(envelope'.calls)

(* C11.  In every request in which no send to the model raises, the        *)
(* messages sent follow the protocol: the first message is the user query  *)
(* and is the only one that carries the capability schema; every later     *)
(* message is a tool result whose name is the name of the call requested   *)
(* in the immediately preceding model response; a tool is executed only in *)
(* answer to such a request; and the number of messages sent equals one    *)
(* plus the number of trace entries.                                       *)
C11_SendProtocol == [][C11_ProtocolStep]_vars

\* no send raised; get_daily_cost_trend ran and its result was sent, then
\* unknown_tool was refused and the error was sent, then chat returned
C11_Witness ==
    /\ pc = "returned"
    /\ faults = <<>>
    /\ Len(sent) = 3
    /\ sent[1] = UserMessage(query)
    /\ sent[2] = ResultMessage("get_daily_cost_trend", ResultOf(invoked[1]))
    /\ sent[3] = ErrorMessage("unknown_tool", UnknownToolError("unknown_tool"))
    /\ Len(invoked) = 1
    /\ Len(envelope.calls) = 2
    /\ envelope.calls[1].ok
    /\ ~envelope.calls[2].ok

====
